---- MODULE Spec2Model ----
(***************************************************************************)
(* HrfRetrieval (src/hrf.py): the peristimulus grid built by __init__, the *)
(* FIR design matrices built by getFIRmodel and the two estimators of      *)
(* estimateHRF.                                                            *)
(*                                                                         *)
(* Numbers.  Times and amplitudes are exact rationals <<n, d>> (d > 0,     *)
(* lowest terms); NaN is <<0, 0>>.  The IEEE rounding error of a double is *)
(* not modelled: every float operation of the source is its exact value.   *)
(* Arrays are functions on 0 .. n-1, as the source indexes them.           *)
(* A dict (a condition record) is a function from its keys.                *)
(* The timecourse is 1-D (a single voxel).                                 *)
(***************************************************************************)
EXTENDS Integers, Sequences, FiniteSets, TLC

----------------------------------------------------------------------------
(* Exact rational arithmetic standing for the source's float arithmetic.   *)

RECURSIVE Gcd(_, _)
Gcd(a, b) == IF b = 0 THEN a ELSE Gcd(b, a % b)

Abs(x) == IF x < 0 THEN -x ELSE x

NaN == <<0, 0>>

IsNaN(x) == x[2] = 0

\* n/d in lowest terms with a positive denominator (d # 0).
Rat(n, d) ==
    LET g == Gcd(Abs(n), Abs(d))
        s == IF d < 0 THEN -1 ELSE 1
    IN  <<(s * n) \div g, (s * d) \div g>>

RInt(n) == <<n, 1>>

RAdd(x, y) == IF IsNaN(x) \/ IsNaN(y) THEN NaN
              ELSE IF x[1] = 0 THEN y
              ELSE IF y[1] = 0 THEN x
              ELSE Rat(x[1] * y[2] + y[1] * x[2], x[2] * y[2])

RSub(x, y) == IF IsNaN(x) \/ IsNaN(y) THEN NaN
              ELSE IF y[1] = 0 THEN x
              ELSE Rat(x[1] * y[2] - y[1] * x[2], x[2] * y[2])

RMul(x, y) == IF IsNaN(x) \/ IsNaN(y) THEN NaN
              ELSE IF x[1] = 0 \/ y[1] = 0 THEN <<0, 1>>
              ELSE IF x = <<1, 1>> THEN y
              ELSE IF y = <<1, 1>> THEN x
              ELSE Rat(x[1] * y[1], x[2] * y[2])

\* numpy's float division: x/0 is nan for x = 0 (inf does not arise: the only
\* zero divisors of the source divide a zero numerator, see estimateHRF).
RDiv(x, y) == IF IsNaN(x) \/ IsNaN(y) \/ y[1] = 0 THEN NaN
              ELSE Rat(x[1] * y[2], x[2] * y[1])

RLt(x, y) == x[1] * y[2] < y[1] * x[2]

\* floor, as np.floor and as the quotient of np.mod
RFloor(x) == x[1] \div x[2]

\* np.fix: truncation toward zero
RFix(x) == IF x[1] >= 0 THEN x[1] \div x[2] ELSE -((-x[1]) \div x[2])

\* round half to even: Python 3 round() and np.round
RRound(x) ==
    LET f == x[1] \div x[2]
        r == Rat(x[1] - f * x[2], x[2])
    IN  IF RLt(r, <<1, 2>>) THEN f
        ELSE IF RLt(<<1, 2>>, r) THEN f + 1
        ELSE IF f % 2 = 0 THEN f ELSE f + 1

\* np.mod(x, y) for y > 0
RMod(x, y) == RSub(x, RMul(RInt(RFloor(RDiv(x, y))), y))

----------------------------------------------------------------------------
(* numpy helpers on arrays (functions on 0 .. n-1)                         *)

Len0(a) == Cardinality(DOMAIN a)

\* An array held by value: every element computed once, when it is built
Array(f) == f @@ << >>

Values(a) == {a[i] : i \in DOMAIN a}

\* np.unique(a): the distinct values of a in ascending order
RECURSIVE SortedSeq(_)
SortedSeq(S) ==
    IF S = {} THEN << >>
    ELSE LET m == CHOOSE x \in S : \A y \in S : x <= y
         IN  <<m>> \o SortedSeq(S \ {m})

\* Mutant of Unique: the distinct values in the order of their first
\* occurrence (an order-preserving de-duplication instead of np.unique)
RECURSIVE Dedup(_, _)
Dedup(a, n) ==
    IF n = 0 THEN << >>
    ELSE IF \E i \in 0 .. n - 2 : a[i] = a[n - 1] THEN Dedup(a, n - 1)
    ELSE Dedup(a, n - 1) \o <<a[n - 1]>>

Unique_unsorted(a) ==
    LET s == Dedup(a, Len0(a)) IN [i \in 0 .. Len(s) - 1 |-> s[i + 1]]

Unique(a) == LET s == SortedSeq(Values(a)) IN [i \in 0 .. Len(s) - 1 |-> s[i + 1]]

\* np.unique(a, return_index=True)[1]: the index of the first occurrence of
\* each distinct value, in the order of np.unique(a)
UniqueIndex(a) ==
    LET u == Unique(a)
    IN  [i \in DOMAIN u |-> CHOOSE j \in DOMAIN a :
                               a[j] = u[i] /\ \A l \in DOMAIN a : a[l] = u[i] => j <= l]

\* a[mask]: the elements of a at the indexes in idx, in index order
RECURSIVE Pick(_, _)
Pick(a, idx) ==
    IF idx = {} THEN << >>
    ELSE LET m == CHOOSE x \in idx : \A y \in idx : x <= y
         IN  <<a[m]>> \o Pick(a, idx \ {m})

Select(a, idx) == LET s == Pick(a, idx) IN [i \in 0 .. Len(s) - 1 |-> s[i + 1]]

RECURSIVE SumTo(_, _)
SumTo(a, n) == IF n = 0 THEN RInt(0) ELSE RAdd(SumTo(a, n - 1), a[n - 1])

\* a.sum() of a 1-D array
Sum(a) == SumTo(a, Len0(a))

\* a.mean(): nan for an empty array (0/0)
Mean(a) == RDiv(Sum(a), RInt(Len0(a)))

\* a.dot(b) of two 1-D arrays of one length
Dot(a, b) == Sum([i \in DOMAIN a |-> RMul(a[i], b[i])])

----------------------------------------------------------------------------
(* HrfRetrieval.__init__: the pure parts                                   *)

\* ER=None, the default of the ER argument
None == <<1, 0>>

\* round(trmult), trmult = TR/ER
trmult_round(TR_, ER_) == RRound(RDiv(TR_, ER_))

\* The branch that corrects ER is taken: ER given, ER != TR, np.mod(TR, ER) != 0
ERAdjusted(TR_, ER_) == ER_ # None /\ ER_ # TR_ /\ RMod(TR_, ER_) # RInt(0)

\* TR/round(trmult) with round(trmult) = 0: Python's float division by zero
\* raises ZeroDivisionError and __init__ does not return
ERRaises(TR_, ER_) == ERAdjusted(TR_, ER_) /\ trmult_round(TR_, ER_) = 0

\* self.ER
InitER(TR_, ER_) ==
    IF ER_ = None \/ ER_ = TR_ THEN TR_
    ELSE IF RMod(TR_, ER_) # RInt(0) THEN RDiv(TR_, RInt(trmult_round(TR_, ER_)))
    ELSE ER_

\* self.nHEst = NPosEst + NNegEst
InitnHEst(Tstart_, Tend_, ER_) == RRound(RDiv(Tstart_, ER_)) + RRound(RDiv(Tend_, ER_))

\* self.nPreStim
InitnPreStim(Tstart_, ER_) == RFloor(RDiv(Tstart_, ER_))

\* np.arange(start, stop, step): ceil((stop - start)/step) values from start
Arange(start, stop, step) ==
    LET q == RDiv(RSub(stop, start), step)
        n == IF RInt(RFloor(q)) = q THEN RFloor(q) ELSE RFloor(q) + 1
    IN  [i \in 0 .. n - 1 |-> RAdd(start, RMul(RInt(i), step))]

\* self.tscale
Inittscale(nPreStim_, nHEst_, ER_) ==
    Arange(RMul(RInt(-nPreStim_ + 1), ER_),
           RMul(RInt(nHEst_ - nPreStim_ + 1), ER_), ER_)

\* self.c_labels: the label of the first event of each code of np.unique
Initc_labels(event_number_, event_labels) ==
    LET indexes == UniqueIndex(event_number_)
    IN  [i \in DOMAIN indexes |-> event_labels[indexes[i]]]

\* self.c_codes
Initc_codes(event_number_) == Unique(event_number_)

----------------------------------------------------------------------------
(* HrfRetrieval.getFIRmodel: the pure parts                                *)

\* 1e4 of trScale and of the target time: a resolution of 0.1 ms
Resolution == 10000

\* Mutant of rounded_onsets: the mask self.event_number == self.c_codes[c]
\* left out, every event taken for every condition
rounded_onsets_anycode(event_timing_, event_number_, code, ER_) ==
    [i \in DOMAIN event_timing_ |->
        RMul(RInt(RRound(RDiv(event_timing_[i], ER_))), ER_)]

\* rounded_onsets: the onsets of the events of one code, on the ER grid
rounded_onsets(event_timing_, event_number_, code, ER_) ==
    LET sel == Select(event_timing_, {i \in DOMAIN event_number_ : event_number_[i] = code})
    IN  [i \in DOMAIN sel |-> RMul(RInt(RRound(RDiv(sel[i], ER_))), ER_)]

\* trScale = np.fix(np.arange(0, ntps*TR, TR)*1e4)/1e4
trScale(ntps_, TR_) ==
    LET a == Arange(RInt(0), RMul(RInt(ntps_), TR_), TR_)
    IN  Array([t \in DOMAIN a |->
            RDiv(RInt(RFix(RMul(a[t], RInt(Resolution)))), RInt(Resolution))])

\* np.round((rounded_onsets[trial] + (Ntp-self.nPreStim)*self.ER)*1e4)/1e4
Target(ro, Ntp, nPreStim_, ER_) ==
    RDiv(RInt(RRound(RMul(RAdd(ro, RMul(RInt(Ntp - nPreStim_), ER_)), RInt(Resolution)))),
         RInt(Resolution))

\* np.zeros((rows, cols))
Zeros(rows, cols) == Array([t \in 0 .. rows - 1 |-> Array([k \in 0 .. cols - 1 |-> 0])])

\* Mutant of SetLag: trE[trScale == target, Ntp] += 1
SetLag_accumulate(trE, scale, target, Ntp) ==
    Array([t \in DOMAIN trE |-> Array([k \in DOMAIN trE[t] |->
        IF k = Ntp /\ scale[t] = target THEN trE[t][k] + 1 ELSE trE[t][k]])])

\* trE[trScale == target, Ntp] = 1
SetLag(trE, scale, target, Ntp) ==
    Array([t \in DOMAIN trE |-> Array([k \in DOMAIN trE[t] |->
        IF k = Ntp /\ scale[t] = target THEN 1 ELSE trE[t][k]])])

\* for Ntp in range(self.nHEst): the lags Ntp .. nHEst-1 of one trial
RECURSIVE LagLoop(_, _, _, _, _, _, _)
LagLoop(trE, scale, ro, Ntp, nHEst_, nPreStim_, ER_) ==
    IF Ntp >= nHEst_ THEN trE
    ELSE LagLoop(SetLag(trE, scale, Target(ro, Ntp, nPreStim_, ER_), Ntp),
                 scale, ro, Ntp + 1, nHEst_, nPreStim_, ER_)

\* for trial in range(len(rounded_onsets)): the trials trial .. of one code
RECURSIVE TrialLoop(_, _, _, _, _, _, _)
TrialLoop(trE, scale, ros, trial, nHEst_, nPreStim_, ER_) ==
    IF trial >= Len0(ros) THEN trE
    ELSE TrialLoop(LagLoop(trE, scale, ros[trial], 0, nHEst_, nPreStim_, ER_),
                   scale, ros, trial + 1, nHEst_, nPreStim_, ER_)

\* trE of one condition: np.zeros((ntps, nHEst)), then the two loops
FIRmatrix(event_timing_, event_number_, code, ntps_, TR_, ER_, nHEst_, nPreStim_) ==
    TrialLoop(Zeros(ntps_, nHEst_),
              trScale(ntps_, TR_),
              rounded_onsets(event_timing_, event_number_, code, ER_),
              0, nHEst_, nPreStim_, ER_)

----------------------------------------------------------------------------
(* HrfRetrieval.estimateHRF: the pure parts                                *)

\* column k of a 2-D array (function of rows)
Col(M, k) == Array([t \in DOMAIN M |-> M[t][k]])

\* self.model[:, :, c]
Slice(model_, c) == [t \in DOMAIN model_ |-> [k \in DOMAIN model_[t] |-> model_[t][k][c]]]

\* self.model.reshape(self.model.shape[0], -1, order='F'): the conditions side
\* by side, column k + nHEst*c holding lag k of condition c
Reshape(model_, nHEst_, nconds_) ==
    [t \in DOMAIN model_ |-> [j \in 0 .. nHEst_ * nconds_ - 1 |->
        RInt(model_[t][j % nHEst_][j \div nHEst_])]]

\* the columns demeaned, and a last column of ones
Demean(model2d, mean, ncols) ==
    Array([t \in DOMAIN model2d |-> Array([j \in 0 .. ncols |->
        IF j = ncols THEN RInt(1) ELSE RSub(model2d[t][j], mean[j])])])

demean_model_plus_intercept(model2d, ncols) ==
    Demean(model2d, Array([j \in 0 .. ncols - 1 |-> Mean(Col(model2d, j))]), ncols)

\* Greville's recursion for the Moore-Penrose pseudo-inverse, one column at a
\* time: P is the pseudo-inverse of the first k columns of A (one row per
\* column of A), a column k of A, d = P a, c = a - A_k d the part of a outside
\* the span of the first k columns, and b the new last row.
GrevilleD(P, a, k) == Array([i \in 0 .. k - 1 |-> Dot(P[i], a)])

GrevilleC(A, a, d, k) ==
    Array([t \in DOMAIN A |->
        RSub(a[t], Sum([i \in 0 .. k - 1 |-> RMul(A[t][i], d[i])]))])

GrevilleB(P, d, c, cc, dd, k, rows) ==
    Array(IF cc # RInt(0)
          THEN [t \in rows |-> RDiv(c[t], cc)]
          ELSE [t \in rows |->
                  RDiv(Sum([i \in 0 .. k - 1 |-> RMul(d[i], P[i][t])]), dd)])

GrevilleP(P, d, b, k, rows) ==
    Array([i \in 0 .. k |->
        IF i = k THEN b
        ELSE Array([t \in rows |-> RSub(P[i][t], RMul(d[i], b[t]))])])

GrevilleRow(A, P, d, c, k) ==
    GrevilleP(P, d,
              GrevilleB(P, d, c, Dot(c, c), RAdd(RInt(1), Dot(d, d)), k, DOMAIN A),
              k, DOMAIN A)

GrevilleCol(A, P, a, d, k) == GrevilleRow(A, P, d, GrevilleC(A, a, d, k), k)

GrevilleStep(A, P, a, k) == GrevilleCol(A, P, a, GrevilleD(P, a, k), k)

RECURSIVE Greville(_, _, _, _)
Greville(A, P, k, ncols) ==
    IF k >= ncols \/ Len0(P) # k THEN P   \* P has k rows, one per column done
    ELSE Greville(A, GrevilleStep(A, P, Col(A, k), k), k + 1, ncols)

\* np.linalg.pinv(A): the Moore-Penrose pseudo-inverse of A (ncols columns),
\* one row per column of A
Pinv(A, ncols) == Greville(A, << >>, 0, ncols)

\* pinv(A).dot(tc)
PinvDot(P, tc_, ncols) == Array([j \in 0 .. ncols - 1 |-> Dot(P[j], tc_)])

\* b_est = np.linalg.pinv(demean_model_plus_intercept).dot(self.tc.T)
b_est(model_, tc_, nHEst_, nconds_) ==
    PinvDot(Pinv(demean_model_plus_intercept(Reshape(model_, nHEst_, nconds_),
                                             nHEst_ * nconds_),
                 nHEst_ * nconds_ + 1),
            tc_, nHEst_ * nconds_ + 1)

\* Mutant of FIR_hrf: range_st = c*self.nHEst + 1
FIR_hrf_shifted(b, c, nHEst_) == [k \in 0 .. nHEst_ - 1 |-> b[c * nHEst_ + 1 + k]]

\* b_est[range_st:range_end].T of condition c
FIR_hrf(b, c, nHEst_) == [k \in 0 .. nHEst_ - 1 |-> b[c * nHEst_ + k]]

\* mean_hrf = self.tc.dot(model)/model.sum(axis=0) of one condition
mean_hrf(tc_, trE) ==
    Array([k \in (IF DOMAIN trE = {} THEN {} ELSE DOMAIN trE[0]) |->
        RDiv(Dot(tc_, [t \in DOMAIN trE |-> RInt(trE[t][k])]),
             Sum([t \in DOMAIN trE |-> RInt(trE[t][k])]))])

\* mean_hrf - mean_prestim
Baselined(mh, mean_prestim) == Array([k \in DOMAIN mh |-> RSub(mh[k], mean_prestim)])

\* mean_hrf[ind].mean()
Prestim(mh, ind) == Mean(Select(mh, ind))

\* Mutant of PrestimCorrected: ind = (self.tscale <= 0)
PrestimCorrected_upto0(mh, tscale_) ==
    Baselined(mh, Prestim(mh, {k \in DOMAIN tscale_ : ~RLt(RInt(0), tscale_[k])}))

\* the average path of one condition, ind = (self.tscale < 0)
PrestimCorrected(mh, tscale_) ==
    Baselined(mh, Prestim(mh, {k \in DOMAIN tscale_ : RLt(tscale_[k], RInt(0))}))

average_hrf(tc_, trE, tscale_) == PrestimCorrected(mean_hrf(tc_, trE), tscale_)

----------------------------------------------------------------------------
(* The object and its callers                                              *)

VARIABLES
    args,           \* the arguments of HrfRetrieval(...): tsData, cond_file, TR, ER, window
    pc,             \* "new" before __init__, "ready" after it, "failed" when it raised
    call,           \* the method called last
    raised,         \* the exception the last call raised, "none" when it returned
    tc, ntps, event_timing, event_number, nconds, c_labels, c_codes, cond,
    Tstart, Tend, TR, ER, nHEst, nPreStim, tscale,   \* the attributes __init__ sets
    model,          \* self.model, set by getFIRmodel
    metric          \* self.metric, set by estimateHRF

grid == <<Tstart, Tend, TR, ER, nHEst, nPreStim, tscale>>

events == <<tc, ntps, event_timing, event_number, nconds, c_labels, c_codes>>

vars == <<args, pc, call, raised, events, cond, grid, model, metric>>

\* an attribute, or a dict key, that is not set
Absent == << >>

\* d[key] = v on a dict
DictSet(d, key, v) == [x \in DOMAIN d \cup {key} |-> IF x = key THEN v ELSE d[x]]

\* Mutant of Assign: for c in range(self.nconds - 1)
Assign_skiplast(cond_, key, nconds_, values) ==
    [c \in DOMAIN cond_ |->
        IF c < nconds_ - 1 THEN DictSet(cond_[c], key, values[c]) ELSE cond_[c]]

\* for c in range(self.nconds): self.cond[c][key] = values[c]
Assign(cond_, key, nconds_, values) ==
    [c \in DOMAIN cond_ |->
        IF c < nconds_ THEN DictSet(cond_[c], key, values[c]) ELSE cond_[c]]

\* trE of every condition, in the order of self.c_codes
AlltrE(event_timing_, event_number_, c_codes_, ntps_, TR_, ER_, nHEst_, nPreStim_, nconds_) ==
    Array([c \in 0 .. nconds_ - 1 |->
        FIRmatrix(event_timing_, event_number_, c_codes_[c],
                  ntps_, TR_, ER_, nHEst_, nPreStim_)])

\* self.model[:, :, c] = trE, for every c
Stack(trEs, ntps_, nHEst_, nconds_) ==
    [t \in 0 .. ntps_ - 1 |-> [k \in 0 .. nHEst_ - 1 |->
        [c \in 0 .. nconds_ - 1 |-> trEs[c][t][k]]]]

\* the blocks of b_est, one per condition
AllFIR_hrf(b, nHEst_, nconds_) == [c \in 0 .. nconds_ - 1 |-> FIR_hrf(b, c, nHEst_)]

\* HrfRetrieval.__init__(tsData, cond_file, TR, ER, window)
Construct ==
    /\ pc = "new"
    /\ call' = "__init__"
    /\ UNCHANGED <<args, model, metric>>
    /\ LET cf == args.cond_file
           number == [i \in DOMAIN cf |-> cf[i].f1]
           labels == Initc_labels(number, [i \in DOMAIN cf |-> cf[i].f4])
           Ts == RInt(Abs(args.window[1]))
           Te == RInt(Abs(args.window[2]))
           er == InitER(args.TR, args.ER)
           nH == InitnHEst(Ts, Te, er)
           nP == InitnPreStim(Ts, er)
       IN  IF ERRaises(args.TR, args.ER)
           THEN /\ pc' = "failed"
                /\ raised' = "ZeroDivisionError"
                /\ UNCHANGED <<events, cond, grid>>
           ELSE /\ pc' = "ready"
                /\ raised' = "none"
                /\ tc' = args.tsData
                /\ ntps' = Len0(args.tsData)
                /\ event_timing' = [i \in DOMAIN cf |-> cf[i].f0]
                /\ event_number' = number
                /\ nconds' = Len0(Unique(number))
                /\ c_labels' = labels
                /\ c_codes' = Initc_codes(number)
                /\ cond' = [c \in DOMAIN labels |-> [label |-> labels[c]]]
                /\ Tstart' = Ts
                /\ Tend' = Te
                /\ TR' = args.TR
                /\ ER' = er
                /\ nHEst' = nH
                /\ nPreStim' = nP
                /\ tscale' = Inittscale(nP, nH, er)

\* self.cond[c]['model'] = trE and self.model[:, :, c] = trE, for every c
StoreModel(trEs) ==
    /\ model' = Stack(trEs, ntps, nHEst, nconds)
    /\ cond' = Assign(cond, "model", nconds, trEs)

\* HrfRetrieval.getFIRmodel()
getFIRmodel ==
    /\ pc = "ready"
    /\ call' = "getFIRmodel"
    /\ raised' = "none"
    /\ StoreModel(AlltrE(event_timing, event_number, c_codes,
                         ntps, TR, ER, nHEst, nPreStim, nconds))
    /\ UNCHANGED <<args, pc, events, grid, metric>>

\* Mutant of estimateHRF: no else branch, an unknown metric returns silently
estimateHRF_silent(metric_) ==
    /\ pc = "ready"
    /\ call' = "estimateHRF"
    /\ metric' = metric_
    /\ IF metric_ \in {"FIR", "average"} /\ model = Absent
       THEN raised' = "AttributeError" /\ UNCHANGED cond
       ELSE /\ raised' = "none"
            /\ cond' = IF metric_ = "FIR"
                       THEN Assign(cond, "FIR_hrf", nconds,
                                   AllFIR_hrf(b_est(model, tc, nHEst, nconds), nHEst, nconds))
                       ELSE IF metric_ = "average"
                       THEN Assign(cond, "average_hrf", nconds,
                                   [c \in 0 .. nconds - 1 |->
                                       average_hrf(tc, Slice(model, c), tscale)])
                       ELSE cond
    /\ UNCHANGED <<args, pc, events, grid, model>>

\* Mutant of estimateHRF: the average path keeps the pre-stimulus part of the
\* time axis in self.tscale (self.tscale = self.tscale[ind])
estimateHRF_clobber(metric_) ==
    /\ pc = "ready"
    /\ call' = "estimateHRF"
    /\ metric' = metric_
    /\ IF metric_ \in {"FIR", "average"} /\ model = Absent
       THEN raised' = "AttributeError" /\ UNCHANGED <<cond, tscale>>
       ELSE IF metric_ = "FIR"
       THEN /\ raised' = "none"
            /\ cond' = Assign(cond, "FIR_hrf", nconds,
                              AllFIR_hrf(b_est(model, tc, nHEst, nconds), nHEst, nconds))
            /\ UNCHANGED tscale
       ELSE IF metric_ = "average"
       THEN /\ raised' = "none"
            /\ cond' = Assign(cond, "average_hrf", nconds,
                              [c \in 0 .. nconds - 1 |->
                                  average_hrf(tc, Slice(model, c), tscale)])
            /\ tscale' = Select(tscale, {k \in DOMAIN tscale : RLt(tscale[k], RInt(0))})
       ELSE raised' = "UserDefinedException" /\ UNCHANGED <<cond, tscale>>
    /\ UNCHANGED <<args, pc, events, Tstart, Tend, TR, ER, nHEst, nPreStim, model>>

\* HrfRetrieval.estimateHRF(metric)
estimateHRF(metric_) ==
    /\ pc = "ready"
    /\ call' = "estimateHRF"
    /\ metric' = metric_
    /\ IF metric_ = "FIR"
       THEN IF model = Absent
            THEN raised' = "AttributeError" /\ UNCHANGED cond
            ELSE /\ raised' = "none"
                 /\ cond' = Assign(cond, "FIR_hrf", nconds,
                                   AllFIR_hrf(b_est(model, tc, nHEst, nconds), nHEst, nconds))
       ELSE IF metric_ = "average"
       THEN IF model = Absent
            THEN raised' = "AttributeError" /\ UNCHANGED cond
            ELSE /\ raised' = "none"
                 /\ cond' = Assign(cond, "average_hrf", nconds,
                                   [c \in 0 .. nconds - 1 |->
                                       average_hrf(tc, Slice(model, c), tscale)])
       ELSE raised' = "UserDefinedException" /\ UNCHANGED cond
    /\ UNCHANGED <<args, pc, events, grid, model>>

----------------------------------------------------------------------------
(* The callers' inputs                                                     *)

\* number of acquisitions of the timecourse (tsData.shape[-1])
Ntps == 4

\* most rows of an event table
MaxEvents == 2

\* most rows of an event table when the estimators run too
MaxTrials == 2

TRSet == {RInt(1), RInt(2)}

ERSet == {None, <<1, 2>>, <<3, 4>>, RInt(1), <<4, 3>>, RInt(3), RInt(5)}

WindowSet == {<<-2, 1>>, <<-1, 1>>, <<0, 1>>, <<-1, 2>>, <<0, 0>>}

OnsetSet == {RInt(0), RInt(1), <<5, 2>>}

CodeSet == {1, 2}

MetricSet == {"FIR", "average", "bogus"}

\* Event tables of n rows: onset f0, condition code f1, label f4 (one label
\* per row, so that a label tells which row it was read from)
TablesOf(n, onsets) ==
    {[i \in 0 .. n - 1 |-> [f0 |-> o[i], f1 |-> c[i], f4 |-> ToString(i)]] :
        o \in [0 .. n - 1 -> onsets], c \in [0 .. n - 1 -> CodeSet]}

Tables(max, onsets) == UNION {TablesOf(n, onsets) : n \in 1 .. max}

\* The known impulse response of the condition with a code, at a lag
Response(code, k) == RInt(10 * code + (k + 1) * (k + 1))

\* Acquisition t falls on lag k of an event with this onset: t*TR and
\* round(onset/ER)*ER + (k - nPreStim)*ER agree at the resolution of 1e-4 s
Aligned(t, onset, k, TR_, ER_, nPreStim_) ==
    LET snapped == RMul(RInt(RRound(RDiv(onset, ER_))), ER_)
        lagtime == RAdd(snapped, RMul(RInt(k - nPreStim_), ER_))
    IN  RFix(RMul(RMul(RInt(t), TR_), RInt(Resolution)))
            = RRound(RMul(lagtime, RInt(Resolution)))

\* A noise-free timecourse: every event adds the known response of its
\* condition, lag by lag, to the acquisitions its lags fall on
Synthetic(cf, TR_, ERarg, window) ==
    IF ERRaises(TR_, ERarg) THEN [t \in 0 .. Ntps - 1 |-> RInt(0)]
    ELSE LET er == InitER(TR_, ERarg)
             Ts == RInt(Abs(window[1]))
             nH == InitnHEst(Ts, RInt(Abs(window[2])), er)
             nP == InitnPreStim(Ts, er)
         IN  [t \in 0 .. Ntps - 1 |->
                Sum([e \in DOMAIN cf |->
                    Sum([k \in 0 .. nH - 1 |->
                        IF Aligned(t, cf[e].f0, k, TR_, er, nP)
                        THEN Response(cf[e].f1, k) ELSE RInt(0)])])]

InitWith(ers, windows, tables) ==
    /\ \E TR_ \in TRSet, ER_ \in ers, w \in windows, cf \in tables :
          args = [tsData |-> Synthetic(cf, TR_, ER_, w), cond_file |-> cf,
                  TR |-> TR_, ER |-> ER_, window |-> w]
    /\ pc = "new"
    /\ call = "none"
    /\ raised = "none"
    /\ tc = Absent /\ ntps = Absent /\ event_timing = Absent /\ event_number = Absent
    /\ nconds = Absent /\ c_labels = Absent /\ c_codes = Absent /\ cond = Absent
    /\ Tstart = Absent /\ Tend = Absent /\ TR = Absent /\ ER = Absent
    /\ nHEst = Absent /\ nPreStim = Absent /\ tscale = Absent
    /\ model = Absent
    /\ metric = Absent

\* The inputs of the runs that go on to estimate
ERSetEst == {None, <<1, 2>>, RInt(5)}

WindowSetEst == {<<-2, 1>>, <<-1, 1>>, <<0, 1>>}

OnsetSetEst == {RInt(1), <<5, 2>>}

Init == InitWith(ERSetEst, WindowSetEst, Tables(MaxTrials, OnsetSetEst))

Next ==
    \/ Construct
    \/ getFIRmodel
    \/ \E m \in MetricSet : estimateHRF(m)

Spec == Init /\ [][Next]_vars

\* The grid and the design matrices alone, on more event tables
InitDesign == InitWith(ERSet, WindowSet, Tables(MaxEvents, OnsetSet))

NextDesign ==
    \/ Construct
    \/ getFIRmodel

SpecDesign == InitDesign /\ [][NextDesign]_vars

----------------------------------------------------------------------------
(* Claims about the grid and the design matrices (SpecDesign)              *)

Ready == pc = "ready"

Built == pc = "ready" /\ model # Absent

Conds == 0 .. nconds - 1

Lags == 0 .. nHEst - 1

Acqs == 0 .. ntps - 1

\* rows of the event table with the code of condition c
EventsOf(c) == {e \in DOMAIN event_number : event_number[e] = c_codes[c]}

\* TR/ER is a positive integer
Divides(ER_, TR_) ==
    /\ ~IsNaN(ER_)
    /\ RLt(RInt(0), ER_)
    /\ RMod(TR_, ER_) = RInt(0)
    /\ RFloor(RDiv(TR_, ER_)) >= 1

\* C1 (as claimed): for every TR > 0 and every supplied ER > 0, ER larger than
\* TR included, __init__ completes and the ER it stores divides TR exactly;
\* an ER that already divides TR, or no ER, is stored unchanged.
C1_ConstructionAlwaysDivides ==
    pc # "new" =>
        /\ pc = "ready"
        /\ raised = "none"
        /\ Divides(ER, TR)
        /\ (args.ER = None => ER = args.TR)
        /\ (args.ER # None /\ RMod(args.TR, args.ER) = RInt(0) => ER = args.ER)

\* C2: after getFIRmodel, entry [t, k] of the matrix of condition c is 1
\* exactly when acquisition t falls on lag k of some event with the code of
\* c, and 0 otherwise; the tensor holds the same entries.
C2_DesignEntries ==
    Built =>
        \A c \in Conds : \A t \in Acqs : \A k \in Lags :
            /\ cond[c].model[t][k] =
                   IF \E e \in EventsOf(c) :
                          Aligned(t, event_timing[e], k, TR, ER, nPreStim)
                   THEN 1 ELSE 0
            /\ model[t][k][c] = cond[c].model[t][k]

\* C2 witness: two conditions on a grid finer than TR, each with a sample
\* set, one sample set for one condition only, and an event whose early
\* lags fall before the first acquisition
C2_Witness ==
    /\ Built
    /\ nconds = 2
    /\ ER # TR
    /\ \E t \in Acqs : \E k \in Lags : model[t][k][0] = 1 /\ model[t][k][1] = 0
    /\ \E t \in Acqs : \E k \in Lags : model[t][k][1] = 1
    /\ \E e \in DOMAIN event_timing :
           RLt(RAdd(event_timing[e], RMul(RInt(0 - nPreStim), ER)), RInt(0))

\* the distinct codes of an array in the order of their first appearance
RECURSIVE FirstAppearance(_, _)
FirstAppearance(a, n) ==
    IF n = 0 THEN << >>
    ELSE LET before == FirstAppearance(a, n - 1)
         IN  IF \E i \in 0 .. n - 2 : a[i] = a[n - 1] THEN before
             ELSE before \o <<a[n - 1]>>

\* C5 (as claimed): condition i is the i-th distinct code met reading the
\* event table top to bottom.
C5_FirstAppearanceOrder ==
    Ready =>
        LET fa == FirstAppearance(event_number, Len0(event_number))
        IN  /\ nconds = Len(fa)
            /\ \A i \in Conds : c_codes[i] = fa[i + 1]

\* C5 (amended): the conditions are in ascending order of their codes, each
\* distinct code once, and the label of a condition is the label of the
\* first row of the table with its code.
C5_AscendingCodeOrder ==
    Ready =>
        /\ DOMAIN c_codes = Conds /\ DOMAIN cond = Conds /\ DOMAIN c_labels = Conds
        /\ {c_codes[i] : i \in Conds} = {args.cond_file[e].f1 : e \in DOMAIN args.cond_file}
        /\ \A i \in Conds : \A j \in Conds : i < j => c_codes[i] < c_codes[j]
        /\ \A i \in Conds :
              \E e \in DOMAIN args.cond_file :
                  /\ args.cond_file[e].f1 = c_codes[i]
                  /\ \A l \in 0 .. e - 1 : args.cond_file[l].f1 # c_codes[i]
                  /\ c_labels[i] = args.cond_file[e].f4
                  /\ cond[i].label = args.cond_file[e].f4

\* C5 witness: two conditions, and the table's first row has the larger code
C5_Witness ==
    /\ Ready
    /\ nconds = 2
    /\ event_number[0] = c_codes[1]
    /\ cond[1].label = args.cond_file[0].f4

\* C6 (as claimed): tscale has nHEst = round(Tstart/ER) + round(Tend/ER)
\* values spaced by ER, nPreStim = floor(Tstart/ER), and index nPreStim, the
\* lag the design matrix places on the onset itself, holds t = 0.
C6_TscaleZeroAtnPreStim ==
    Ready =>
        /\ nHEst = RRound(RDiv(Tstart, ER)) + RRound(RDiv(Tend, ER))
        /\ nPreStim = RFloor(RDiv(Tstart, ER))
        /\ DOMAIN tscale = Lags
        /\ \A i \in Lags : i + 1 \in Lags => RSub(tscale[i + 1], tscale[i]) = ER
        /\ nPreStim \in Lags => tscale[nPreStim] = RInt(0)

\* column k of the matrix of condition c, summed
ColumnSum(c, k) == Sum([t \in Acqs |-> RInt(cond[c].model[t][k])])

\* C9: every entry of a design matrix is 0 or 1, and a column sums to at
\* most the number of events of the condition.
C9_BinaryAndColumnSums ==
    Built =>
        \A c \in Conds : \A k \in Lags :
            /\ \A t \in Acqs : cond[c].model[t][k] \in {0, 1}
            /\ ~RLt(RInt(Cardinality(EventsOf(c))), ColumnSum(c, k))

\* C9 witness: the two events of a condition fall on the same sample of a
\* lag, and the column counts the sample once
C9_Witness ==
    /\ Built
    /\ \E c \in Conds : \E k \in Lags : \E t \in Acqs :
           \E e1 \in EventsOf(c) : \E e2 \in EventsOf(c) :
               /\ e1 # e2
               /\ Aligned(t, event_timing[e1], k, TR, ER, nPreStim)
               /\ Aligned(t, event_timing[e2], k, TR, ER, nPreStim)
               /\ cond[c].model[t][k] = 1
               /\ ColumnSum(c, k) = RInt(1)

----------------------------------------------------------------------------
(* Claims about the estimators (Spec)                                      *)

ValidMetrics == {"FIR", "average"}

EstimateKeys == {"FIR_hrf", "average_hrf"}

\* the key estimateHRF stores the estimate of a metric under
KeyOf(m) == IF m = "FIR" THEN "FIR_hrf" ELSE "average_hrf"

Has(key) == Ready /\ \A c \in Conds : key \in DOMAIN cond[c]

\* C3 (as claimed): after an estimate with a metric outside {FIR, average},
\* in any state, the call has failed with the invalid-metric error and no
\* condition record holds a response estimate.
C3_NoEstimateAfterInvalid ==
    (call = "estimateHRF" /\ metric \notin ValidMetrics) =>
        /\ raised = "UserDefinedException"
        /\ \A c \in Conds : DOMAIN cond[c] \cap EstimateKeys = {}

\* C3 (amended): an estimate with a metric outside {FIR, average} fails with
\* the invalid-metric error in any state and changes nothing but self.metric:
\* the condition records, with the estimates of earlier calls, the grid, the
\* design tensor and the inputs are as they were.
C3_InvalidRaisesAndKeeps ==
    [][(call' = "estimateHRF" /\ metric' \notin ValidMetrics) =>
          /\ raised' = "UserDefinedException"
          /\ UNCHANGED <<cond, grid, model, events, pc, args>>]_vars

\* C3 witness: an invalid metric was refused after both estimators had run
C3_Witness ==
    /\ call = "estimateHRF"
    /\ metric \notin ValidMetrics
    /\ raised = "UserDefinedException"
    /\ Has("FIR_hrf")
    /\ Has("average_hrf")

\* C4 (as claimed): after any estimate call, made after any earlier calls,
\* either every condition holds the estimate of the metric or the call
\* failed with the invalid-metric error.
C4_TwoOutcomes ==
    call = "estimateHRF" =>
        \/ raised = "none" /\ Has(KeyOf(metric))
        \/ raised = "UserDefinedException"

\* C4 (amended): an estimate call made after getFIRmodel has run ends with
\* the estimate of the metric on every condition, or with the invalid-metric
\* error when the metric is unknown; made before any getFIRmodel, a known
\* metric fails with AttributeError and no condition holds an estimate.
\* No state has an estimate on some conditions only.
C4_OutcomesAfterBuild ==
    /\ call = "estimateHRF" =>
          IF metric \notin ValidMetrics THEN raised = "UserDefinedException"
          ELSE IF model # Absent THEN raised = "none" /\ Has(KeyOf(metric))
          ELSE /\ raised = "AttributeError"
               /\ \A c \in Conds : DOMAIN cond[c] \cap EstimateKeys = {}
    /\ Ready =>
          \A key \in EstimateKeys :
              (\E c \in Conds : key \in DOMAIN cond[c]) => Has(key)

\* C4 witness: two conditions, both estimated by the last call
C4_Witness ==
    /\ call = "estimateHRF"
    /\ raised = "none"
    /\ Ready
    /\ nconds = 2
    /\ Has(KeyOf(metric))

\* the design matrices the condition records hold
CondModels == [c \in DOMAIN cond |->
                 IF "model" \in DOMAIN cond[c] THEN cond[c].model ELSE Absent]

\* C10: an estimate call, whatever its metric, leaves the grid, the design
\* matrices of the conditions and the tensor as they were; the matrices
\* change only in getFIRmodel, and a later getFIRmodel stores matrices equal
\* to those in place.
C10_EstimateKeepsDesign ==
    [][/\ call' = "estimateHRF" => UNCHANGED <<grid, model>> /\ CondModels' = CondModels
       /\ (model' # model \/ (Ready /\ CondModels' # CondModels)) => call' = "getFIRmodel"
       /\ (call' = "getFIRmodel" /\ model # Absent) =>
              model' = model /\ CondModels' = CondModels]_vars

\* C10 witness: the matrices were built again after both estimators and an
\* invalid metric had run
C10_Witness ==
    /\ call = "getFIRmodel"
    /\ metric \notin ValidMetrics
    /\ Has("FIR_hrf")
    /\ Has("average_hrf")
    /\ \E t \in Acqs : \E k \in Lags : model[t][k][0] = 1

\* the lags of the events of condition c that fall on acquisition t
Hits(c, t) ==
    {<<e, k>> \in EventsOf(c) \X Lags : Aligned(t, event_timing[e], k, TR, ER, nPreStim)}

\* no two events of a condition fall on the same sample at the same lag
NoCollision ==
    \A c \in Conds : \A t \in Acqs : \A h1 \in Hits(c, t) : \A h2 \in Hits(c, t) :
        h1[2] = h2[2] => h1 = h2

\* the trials do not overlap: no sample carries two lags of the condition
NonOverlapping == \A c \in Conds : \A t \in Acqs : Cardinality(Hits(c, t)) <= 1

\* every lag of every condition falls on an acquisition
AllLagsSampled == \A c \in Conds : \A k \in Lags : \E t \in Acqs : model[t][k][c] = 1

\* the design columns of all conditions and the constant column, as integers
WithOnes == [t \in Acqs |-> [j \in 0 .. nHEst * nconds |->
                IF j = nHEst * nconds THEN 1 ELSE model[t][j % nHEst][j \div nHEst]]]

RECURSIVE IntSum(_, _)
IntSum(f, S) ==
    IF S = {} THEN 0
    ELSE LET x == CHOOSE y \in S : TRUE IN f[x] + IntSum(f, S \ {x})

\* B^T B
Gram(B, ncols) ==
    [i \in 0 .. ncols - 1 |-> [j \in 0 .. ncols - 1 |->
        IntSum([t \in DOMAIN B |-> B[t][i] * B[t][j]], DOMAIN B)]]

\* the determinant of rows r .. of G on the columns cols, along row r
RECURSIVE Det(_, _, _)
Det(G, r, cols) ==
    IF cols = {} THEN 1
    ELSE IntSum([c \in cols |->
                    (IF Cardinality({x \in cols : x < c}) % 2 = 0 THEN 1 ELSE -1)
                    * (IF G[r][c] = 0 THEN 0 ELSE G[r][c] * Det(G, r + 1, cols \ {c}))],
                cols)

\* The design columns and the constant column are linearly independent
\* (the Gram determinant is not 0): the regression has one solution
Identifiable ==
    /\ nHEst * nconds + 1 <= ntps
    /\ Det(Gram(WithOnes, nHEst * nconds + 1), 0, 0 .. nHEst * nconds) # 0

\* the FIR estimates are the known responses
Recovered ==
    \A c \in Conds : \A k \in Lags : cond[c].FIR_hrf[k] = Response(c_codes[c], k)

PrestimLags == {k \in DOMAIN tscale : RLt(tscale[k], RInt(0))}

\* the known response of the only condition minus its pre-stimulus mean
KnownCorrected(k) ==
    RSub(Response(c_codes[0], k),
         Mean(Select([j \in Lags |-> Response(c_codes[0], j)], PrestimLags)))

AverageIsKnown ==
    \A k \in Lags :
        /\ ~IsNaN(cond[0].average_hrf[k])
        /\ cond[0].average_hrf[k] = KnownCorrected(k)

====
